---- MODULE Spec2Model ----
(***************************************************************************)
(* The search retrieval pipeline of search_bridge.py: SearchCache (a TTL   *)
(* cache in one SQLite table), enrich_query, rerank_results and            *)
(* BraveSearchProvider.search / _perform_search.                           *)
(*                                                                         *)
(* A Python str is a sequence of one-character strings (<<"t","e","h">>    *)
(* is "teh").  None is the value NoneValue.  Scores are kept in half       *)
(* points so that they stay integers (2.0 is 4, 0.5 is 1).                 *)
(***************************************************************************)
EXTENDS Integers, Sequences, FiniteSets, TLC

VARIABLES
    api_key,            \* BraveSearchProvider.api_key: TRUE when a key is configured
    ENABLE_ENRICHMENT,  \* module configuration, fixed when the module is loaded
    ENABLE_RERANK,
    CACHE_BACKEND,
    db,                 \* table search_cache: cache_key -> [results, created_at,
                        \* query]
    now,                \* time.time()
    calls,              \* number of calls made so far
    call,               \* the last call: [op, query, count, e, r]
    ret,                \* what the last call returned: [kind, value]
    events,             \* what the last call did, in order: log lines, provider
                        \* requests and statements run on the table
    lookups,            \* last search: per variant fetched, [query, answer, results]
    nextResp,           \* last search: the provider's answer to one more request
    pending             \* per concurrent caller: the get it is in the middle of,
                        \* between its SELECT and its DELETE, or NoGet

vars == <<api_key, ENABLE_ENRICHMENT, ENABLE_RERANK, CACHE_BACKEND, db, now,
          calls, call, ret, events, lookups, nextResp, pending>>

---------------------------------------------------------------------------
(* Bounds of the model *)

MaxTime == 2
MaxSearches == 2
MaxCacheOps == 3
MaxCount == 2
MaxWords == 3
MaxResults == 3
NumCallers == 2

\* SearchCache.ttl_seconds, in ticks of the model's clock
ttl_seconds == 2

(* Program constants *)

RETRY_ATTEMPTS == 2
BRAVE_COUNT_LIMIT == 10
SHORT_DESCRIPTION == 50
MAX_VARIANTS == 3

---------------------------------------------------------------------------
(* Python values *)

NoneValue == <<"<None>">>
Missing == <<"<missing>">>

Min(a, b) == IF a <= b THEN a ELSE b
Max(a, b) == IF a >= b THEN a ELSE b

\* s[:n]
Take(s, n) ==
    IF n >= 0 THEN SubSeq(s, 1, Min(n, Len(s)))
    ELSE SubSeq(s, 1, Max(0, Len(s) + n))

\* s[n:] for n >= 0
Drop(s, n) == SubSeq(s, Min(n, Len(s)) + 1, Len(s))

UpperLetters ==
    <<"A","B","C","D","E","F","G","H","I","J","K","L","M",
      "N","O","P","Q","R","S","T","U","V","W","X","Y","Z">>
LowerLetters ==
    <<"a","b","c","d","e","f","g","h","i","j","k","l","m",
      "n","o","p","q","r","s","t","u","v","w","x","y","z">>

\* the lower-case letter of each upper-case letter
LowerOf ==
    [c \in {UpperLetters[i] : i \in 1..Len(UpperLetters)} |->
        LowerLetters[CHOOSE i \in 1..Len(UpperLetters) : UpperLetters[i] = c]]

LowerChar(c) == IF c \in DOMAIN LowerOf THEN LowerOf[c] ELSE c

\* str.lower()
Lower(s) == [i \in 1..Len(s) |-> LowerChar(s[i])]

Whitespace == {" ", "\t", "\n"}

RECURSIVE LStrip(_)
LStrip(s) ==
    IF s # <<>> /\ Head(s) \in Whitespace THEN LStrip(Tail(s)) ELSE s

RECURSIVE RStrip(_)
RStrip(s) ==
    IF s # <<>> /\ s[Len(s)] \in Whitespace
    THEN RStrip(SubSeq(s, 1, Len(s) - 1))
    ELSE s

\* str.strip()
Strip(s) == RStrip(LStrip(s))

\* s.startswith(p)
StartsWith(s, p) == Len(p) <= Len(s) /\ SubSeq(s, 1, Len(p)) = p

\* sub in s, for strings
Contains(s, sub) ==
    \E i \in 0..(Len(s) - Len(sub)) : SubSeq(s, i + 1, i + Len(sub)) = sub

\* s.replace(old, new), old non-empty: every non-overlapping occurrence,
\* left to right
RECURSIVE Replace(_, _, _)
Replace(s, old, new) ==
    IF s = <<>> THEN <<>>
    ELSE IF StartsWith(s, old)
         THEN new \o Replace(Drop(s, Len(old)), old, new)
         ELSE <<Head(s)>> \o Replace(Tail(s), old, new)

\* s.split(): the maximal runs of non-whitespace characters
RECURSIVE SplitFrom(_, _)
SplitFrom(s, word) ==
    IF s = <<>> THEN (IF word = <<>> THEN <<>> ELSE <<word>>)
    ELSE IF Head(s) \in Whitespace
         THEN (IF word = <<>> THEN <<>> ELSE <<word>>) \o SplitFrom(Tail(s), <<>>)
         ELSE SplitFrom(Tail(s), Append(word, Head(s)))

Split(s) == SplitFrom(s, <<>>)

\* x in xs, for a list
InList(x, xs) == \E i \in 1..Len(xs) : xs[i] = x

\* f"{v}"
Format(v) == IF v = NoneValue THEN <<"N","o","n","e">> ELSE v

---------------------------------------------------------------------------
(* WebResult and its JSON form *)

WebResult(title, url, description) ==
    [title |-> title, url |-> url, description |-> description]

\* PyValue with null decoded as the empty string
PyValueNullAsEmpty(j) == IF j[1] = "null" THEN <<>> ELSE j[2]

\* json.dumps / json.loads of one field value: a str is a JSON string, None
\* is null
JsonValue(v) == IF v = NoneValue THEN <<"null">> ELSE <<"string", v>>
PyValue(j) == IF j[1] = "null" THEN NoneValue ELSE j[2]

\* asdict(result): the dataclass's fields in declaration order
asdict(result) ==
    << <<"title", result.title>>, <<"url", result.url>>,
       <<"description", result.description>> >>

\* json.dumps([asdict(result) for result in results])
json_dumps(results) ==
    [i \in 1..Len(results) |->
        [k \in 1..3 |-> <<asdict(results[i])[k][1],
                          JsonValue(asdict(results[i])[k][2])>>]]

\* d[name] of a decoded JSON object
Member(d, name) ==
    PyValue(d[CHOOSE k \in 1..Len(d) : d[k][1] = name][2])

\* [WebResult(**result) for result in json.loads(results_json)]
json_loads_results(results_json) ==
    [i \in 1..Len(results_json) |->
        WebResult(Member(results_json[i], "title"),
                  Member(results_json[i], "url"),
                  Member(results_json[i], "description"))]

---------------------------------------------------------------------------
(* What a call returns *)

RetList(l) == [kind |-> "list", value |-> l]
RetNone == [kind |-> "none", value |-> <<>>]
RetRaise == [kind |-> "raise", value |-> <<>>]

LogEvent(level, message) == <<"log", level, message>>

---------------------------------------------------------------------------
(* SearchCache *)

\* a cache key made of the query as it was given
_generate_cache_key_raw(query, count, enrichment_enabled, reranking_enabled) ==
    <<query, count, enrichment_enabled, reranking_enabled>>

\* md5 of "query.lower().strip():count:enrichment:reranking": the digest is
\* one-to-one on these strings, so the key is the tuple it is computed from
_generate_cache_key(query, count, enrichment_enabled, reranking_enabled) ==
    <<Strip(Lower(query)), count, enrichment_enabled, reranking_enabled>>

\* SearchCache.get that leaves an expired row in the table
SearchCache_get_keeping(table, backend, t, query, count, e, r, fault) ==
    LET cache_key == _generate_cache_key(query, count, e, r) IN
    IF backend # "sqlite"
    THEN [ret |-> RetNone, db |-> table, events |-> <<>>]
    ELSE IF fault
    THEN [ret |-> RetNone, db |-> table,
          events |-> <<LogEvent("error", "Cache retrieval failed")>>]
    ELSE IF cache_key \in DOMAIN table
    THEN IF t - table[cache_key].created_at < ttl_seconds
         THEN [ret |-> RetList(json_loads_results(table[cache_key].results)),
               db |-> table,
               events |-> << <<"select", cache_key>>, LogEvent("info", "Cache hit") >>]
         ELSE [ret |-> RetNone, db |-> table,
               events |-> << <<"select", cache_key>>, <<"delete", cache_key>>,
                             LogEvent("info", "Cache expired") >>]
    ELSE [ret |-> RetNone, db |-> table, events |-> << <<"select", cache_key>> >>]

\* SearchCache.get: [ret, db, events].  fault: a sqlite3 statement or the
\* decoding of the row raises; the transaction is rolled back
SearchCache_get(table, backend, t, query, count, e, r, fault) ==
    LET cache_key == _generate_cache_key(query, count, e, r) IN
    IF backend # "sqlite"
    THEN [ret |-> RetNone, db |-> table, events |-> <<>>]
    ELSE IF fault
    THEN [ret |-> RetNone, db |-> table,
          events |-> <<LogEvent("error", "Cache retrieval failed")>>]
    ELSE IF cache_key \in DOMAIN table
    THEN LET row == table[cache_key]
             age_seconds == t - row.created_at
         IN  IF age_seconds < ttl_seconds
             THEN [ret |-> RetList(json_loads_results(row.results)),
                   db |-> table,
                   events |-> << <<"select", cache_key>>,
                                 LogEvent("info", "Cache hit") >>]
             ELSE [ret |-> RetNone,
                   db |-> [k \in DOMAIN table \ {cache_key} |-> table[k]],
                   events |-> << <<"select", cache_key>>,
                                 <<"delete", cache_key>>,
                                 LogEvent("info", "Cache expired") >>]
    ELSE [ret |-> RetNone, db |-> table,
          events |-> << <<"select", cache_key>> >>]

\* SearchCache.get up to the test of the row's age: the SELECT runs as a
\* statement of its own (sqlite3 opens a transaction only before a statement
\* that writes), so other connections can write before the DELETE.
\* [expired, ret, events]
SearchCache_get_select(table, backend, t, query, count, e, r, fault) ==
    LET cache_key == _generate_cache_key(query, count, e, r) IN
    IF backend # "sqlite"
    THEN [expired |-> FALSE, ret |-> RetNone, events |-> <<>>]
    ELSE IF fault
    THEN [expired |-> FALSE, ret |-> RetNone,
          events |-> <<LogEvent("error", "Cache retrieval failed")>>]
    ELSE IF cache_key \in DOMAIN table
    THEN LET row == table[cache_key]
             age_seconds == t - row.created_at
         IN  IF age_seconds < ttl_seconds
             THEN [expired |-> FALSE,
                   ret |-> RetList(json_loads_results(row.results)),
                   events |-> << <<"select", cache_key>>,
                                 LogEvent("info", "Cache hit") >>]
             ELSE [expired |-> TRUE, ret |-> RetNone,
                   events |-> << <<"select", cache_key>> >>]
    ELSE [expired |-> FALSE, ret |-> RetNone,
          events |-> << <<"select", cache_key>> >>]

\* SearchCache.get from the DELETE on: the row now under cache_key goes,
\* whichever it is.  [ret, db, events]
SearchCache_get_delete(table, cache_key, fault) ==
    IF fault
    THEN [ret |-> RetNone, db |-> table,
          events |-> <<LogEvent("error", "Cache retrieval failed")>>]
    ELSE [ret |-> RetNone,
          db |-> [k \in DOMAIN table \ {cache_key} |-> table[k]],
          events |-> << <<"delete", cache_key>>,
                        LogEvent("info", "Cache expired") >>]

\* SearchCache.set: [db, events]
SearchCache_set(table, backend, t, query, count, e, r, results, fault) ==
    LET cache_key == _generate_cache_key(query, count, e, r)
        results_json == json_dumps(results)
        created_at == t
    IN
    IF backend # "sqlite"
    THEN [db |-> table, events |-> <<>>]
    ELSE IF fault
    THEN [db |-> table,
          events |-> <<LogEvent("error", "Cache storage failed")>>]
    ELSE [db |-> [k \in DOMAIN table \cup {cache_key} |->
                    IF k = cache_key
                    THEN [results |-> results_json, created_at |-> created_at,
                          query |-> query]
                    ELSE table[k]],
          events |-> << <<"upsert", cache_key>>,
                        LogEvent("info", "Results cached") >>]

---------------------------------------------------------------------------
(* enrich_query *)

\* the typo table, in the order the dict is iterated
typos ==
    << <<<<"t","e","h">>, <<"t","h","e">>>>,
       <<<<"r","e","c","i","e","v","e">>, <<"r","e","c","e","i","v","e">>>>,
       <<<<"s","e","p","e","r","a","t","e">>, <<"s","e","p","a","r","a","t","e">>>>,
       <<<<"o","c","c","u","r","e","d">>, <<"o","c","c","u","r","r","e","d">>>>,
       <<<<"n","e","c","c","e","s","s","a","r","y">>, <<"n","e","c","e","s","s","a","r","y">>>> >>

\* the synonym table, in the order the dict is iterated
synonyms ==
    << <<<<"f","a","s","t">>, <<<<"q","u","i","c","k">>, <<"r","a","p","i","d">>>>>>,
       <<<<"b","i","g">>, <<<<"l","a","r","g","e">>, <<"h","u","g","e">>>>>>,
       <<<<"g","o","o","d">>, <<<<"g","r","e","a","t">>, <<"e","x","c","e","l","l","e","n","t">>>>>>,
       <<<<"b","a","d">>, <<<<"p","o","o","r">>, <<"t","e","r","r","i","b","l","e">>>>>> >>

\* a typo loop that appends the lower-cased query instead of the correction
RECURSIVE TypoLoopUncorrected(_, _, _)
TypoLoopUncorrected(query, enriched, i) ==
    IF i > Len(typos) THEN enriched
    ELSE IF Contains(Lower(query), typos[i][1]) /\ ~InList(Lower(query), enriched)
         THEN TypoLoopUncorrected(query, Append(enriched, Lower(query)), i + 1)
         ELSE TypoLoopUncorrected(query, enriched, i + 1)

\* the loop over typos.items(), from entry i on
RECURSIVE TypoLoop(_, _, _)
TypoLoop(query, enriched, i) ==
    IF i > Len(typos) THEN enriched
    ELSE LET typo == typos[i][1]
             correction == typos[i][2]
             corrected == Replace(Lower(query), typo, correction)
         IN  IF Contains(Lower(query), typo) /\ ~InList(corrected, enriched)
             THEN TypoLoop(query, Append(enriched, corrected), i + 1)
             ELSE TypoLoop(query, enriched, i + 1)

\* a synonym loop that takes the synonyms of a word last to first
RECURSIVE SynLoopReversed(_, _, _, _, _)
SynLoopReversed(query, enriched, word, syns, j) ==
    IF j > Len(syns) THEN enriched
    ELSE LET variant == Replace(Lower(query), word, syns[Len(syns) + 1 - j]) IN
         IF Len(enriched) < MAX_VARIANTS /\ ~InList(variant, enriched)
         THEN SynLoopReversed(query, Append(enriched, variant), word, syns, j + 1)
         ELSE SynLoopReversed(query, enriched, word, syns, j + 1)

\* the loop over the synonyms of one word, from synonym j on
RECURSIVE SynLoop(_, _, _, _, _)
SynLoop(query, enriched, word, syns, j) ==
    IF j > Len(syns) THEN enriched
    ELSE LET variant == Replace(Lower(query), word, syns[j]) IN
         IF Len(enriched) < MAX_VARIANTS /\ ~InList(variant, enriched)
         THEN SynLoop(query, Append(enriched, variant), word, syns, j + 1)
         ELSE SynLoop(query, enriched, word, syns, j + 1)

\* the loop over synonyms.items(), from entry i on
RECURSIVE WordLoop(_, _, _)
WordLoop(query, enriched, i) ==
    IF i > Len(synonyms) THEN enriched
    ELSE LET word == synonyms[i][1]
             syns == synonyms[i][2]
         IN  IF Contains(Lower(query), word) /\ Len(enriched) < MAX_VARIANTS
             THEN WordLoop(query, SynLoop(query, enriched, word, syns, 1), i + 1)
             ELSE WordLoop(query, enriched, i + 1)

\* enrich_query without the final slice
enrich_query_unsliced(enabled, query) ==
    IF ~enabled THEN <<query>>
    ELSE WordLoop(query, TypoLoop(query, <<query>>, 1), 1)

\* enrich_query: the module's ENABLE_ENRICHMENT is the parameter `enabled`
enrich_query(enabled, query) ==
    IF ~enabled THEN <<query>>
    ELSE Take(WordLoop(query, TypoLoop(query, <<query>>, 1), 1), MAX_VARIANTS)

---------------------------------------------------------------------------
(* rerank_results *)

\* the number of elements of the set S
Count(S) == Cardinality(S)

\* calculate_score that adds the half point for a short description
calculate_score_bonus(query, result) ==
    LET query_terms == {Split(Lower(query))[i] : i \in 1..Len(Split(Lower(query)))}
        text == Lower(Format(result.title) \o <<" ">> \o Format(result.description))
        title_score == 4 * Count({t \in query_terms : InList(t, Split(Lower(result.title)))})
        text_score == 2 * Count({t \in query_terms : InList(t, Split(text))})
        phrase_score == IF Contains(text, Lower(query)) THEN 6 ELSE 0
        bonus == IF Len(result.description) < SHORT_DESCRIPTION THEN 1 ELSE 0
    IN  IF result.title = NoneValue \/ result.description = NoneValue
        THEN [raise |-> TRUE, score |-> 0]
        ELSE [raise |-> FALSE,
              score |-> title_score + text_score + phrase_score + bonus]

\* calculate_score(result), in half points: [raise, score].  A title or a
\* description that is None raises (None has no lower() and no len())
calculate_score(query, result) ==
    LET query_terms == {Split(Lower(query))[i] : i \in 1..Len(Split(Lower(query)))}
        text == Lower(Format(result.title) \o <<" ">> \o Format(result.description))
        text_terms == Split(text)
        title_terms == Split(Lower(result.title))
        title_score == 4 * Count({t \in query_terms : InList(t, title_terms)})
        text_score == 2 * Count({t \in query_terms : InList(t, text_terms)})
        phrase_score == IF Contains(text, Lower(query)) THEN 6 ELSE 0
        penalty == IF Len(result.description) < SHORT_DESCRIPTION THEN 1 ELSE 0
    IN  IF result.title = NoneValue \/ result.description = NoneValue
        THEN [raise |-> TRUE, score |-> 0]
        ELSE [raise |-> FALSE,
              score |-> title_score + text_score + phrase_score - penalty]

\* a step of the sort that puts x before the elements of its own score
RECURSIVE InsertByScoreBeforeTies(_, _)
InsertByScoreBeforeTies(sorted, x) ==
    IF sorted = <<>> THEN <<x>>
    ELSE IF Head(sorted)[2] > x[2]
         THEN <<Head(sorted)>> \o InsertByScoreBeforeTies(Tail(sorted), x)
         ELSE <<x>> \o sorted

\* one step of the stable descending sort: x goes after every element whose
\* score is at least its own
RECURSIVE InsertByScore(_, _)
InsertByScore(sorted, x) ==
    IF sorted = <<>> THEN <<x>>
    ELSE IF Head(sorted)[2] >= x[2]
         THEN <<Head(sorted)>> \o InsertByScore(Tail(sorted), x)
         ELSE <<x>> \o sorted

\* scored_results.sort(key=lambda x: x[1], reverse=True): stable
RECURSIVE SortByScore(_)
SortByScore(scored) ==
    IF scored = <<>> THEN <<>>
    ELSE InsertByScore(SortByScore(SubSeq(scored, 1, Len(scored) - 1)),
                       scored[Len(scored)])

\* rerank_results that sorts whatever ENABLE_RERANK is
rerank_results_always(enabled, query, results) ==
    IF Len(results) <= 1
    THEN [raise |-> FALSE, value |-> results]
    ELSE IF \E i \in 1..Len(results) : calculate_score(query, results[i]).raise
    THEN [raise |-> TRUE, value |-> <<>>]
    ELSE LET sorted == SortByScore([i \in 1..Len(results) |->
                 <<results[i], calculate_score(query, results[i]).score>>])
         IN  [raise |-> FALSE, value |-> [i \in 1..Len(sorted) |-> sorted[i][1]]]

\* rerank_results: [raise, value]
rerank_results(enabled, query, results) ==
    IF ~enabled \/ Len(results) <= 1
    THEN [raise |-> FALSE, value |-> results]
    ELSE IF \E i \in 1..Len(results) : calculate_score(query, results[i]).raise
    THEN [raise |-> TRUE, value |-> <<>>]
    ELSE LET scored_results ==
                 [i \in 1..Len(results) |->
                     <<results[i], calculate_score(query, results[i]).score>>]
             sorted == SortByScore(scored_results)
         IN  [raise |-> FALSE, value |-> [i \in 1..Len(sorted) |-> sorted[i][1]]]

---------------------------------------------------------------------------
(* The provider's answers *)

\* requests.get raises Timeout
Timeout == [kind |-> "timeout", status |-> 0, json |-> FALSE, web |-> FALSE,
            items |-> <<>>]

\* an HTTP response with an error status
HttpError(status) ==
    [kind |-> "response", status |-> status, json |-> FALSE, web |-> FALSE,
     items |-> <<>>]

\* 200 with a body that is not JSON
BadJson == [kind |-> "response", status |-> 200, json |-> FALSE, web |-> FALSE,
            items |-> <<>>]

\* 200 with a JSON body that has no web.results
NoWeb == [kind |-> "response", status |-> 200, json |-> TRUE, web |-> FALSE,
          items |-> <<>>]

\* 200 with web.results = items
Ok(items) == [kind |-> "response", status |-> 200, json |-> TRUE, web |-> TRUE,
              items |-> items]

\* item.get(name, ""), given item[name] or Missing
ItemGet(v) == IF v = Missing THEN <<>> ELSE v

\* response.raise_for_status() raises
RaisesForStatus(outcome) == outcome.status >= 400

\* _perform_search that keeps every item the provider sent
_perform_search_unsliced(query, count, outcome) ==
    IF outcome.kind = "timeout" \/ RaisesForStatus(outcome) \/ ~outcome.json
    THEN [raise |-> TRUE, results |-> <<>>]
    ELSE IF ~outcome.web
    THEN [raise |-> FALSE, results |-> <<>>]
    ELSE [raise |-> FALSE,
          results |-> [i \in 1..Len(outcome.items) |->
                          WebResult(ItemGet(outcome.items[i].title),
                                    ItemGet(outcome.items[i].url),
                                    ItemGet(outcome.items[i].description))]]

\* BraveSearchProvider._perform_search on the provider's answer `outcome`:
\* [raise, results]
_perform_search(query, count, outcome) ==
    IF outcome.kind = "timeout" \/ RaisesForStatus(outcome) \/ ~outcome.json
    THEN [raise |-> TRUE, results |-> <<>>]
    ELSE IF ~outcome.web
    THEN [raise |-> FALSE, results |-> <<>>]
    ELSE LET items == Take(outcome.items, count) IN
         [raise |-> FALSE,
          results |-> [i \in 1..Len(items) |->
                          WebResult(ItemGet(items[i].title),
                                    ItemGet(items[i].url),
                                    ItemGet(items[i].description))]]

\* BraveSearchProvider._should_retry on the error an answer raises
_should_retry(outcome) ==
    /\ outcome.kind = "response"
    /\ outcome.status >= 500 \/ outcome.status = 429

---------------------------------------------------------------------------
(* BraveSearchProvider.search *)

\* a try block that sends the request again when the first one fails
TryPerformSearchAgain(enriched_query, count, answer) ==
    LET out == _perform_search(enriched_query, count, answer)
        request == <<"request", enriched_query, Min(count, BRAVE_COUNT_LIMIT)>>
    IN  [raise |-> out.raise, results |-> out.results,
         events |-> IF out.raise THEN <<request, request>> ELSE <<request>>]

\* one pass through the try block: a single call of _perform_search, which
\* sends one request: [raise, results, events]
TryPerformSearch(enriched_query, count, answer) ==
    LET out == _perform_search(enriched_query, count, answer) IN
    [raise |-> out.raise, results |-> out.results,
     events |-> << <<"request", enriched_query, Min(count, BRAVE_COUNT_LIMIT)>> >>]

\* a fetch loop that leaves at the first variant whose lookup raises
RECURSIVE FetchLoopStopping(_, _, _, _, _)
FetchLoopStopping(enriched_queries, i, count, script, acc) ==
    IF i > Len(enriched_queries) THEN acc
    ELSE LET enriched_query == enriched_queries[i]
             out == TryPerformSearch(enriched_query, count, script[i])
             next == [all_results |-> acc.all_results \o out.results,
                      events |-> acc.events \o out.events \o
                          (IF out.raise
                           THEN <<LogEvent("warn", "Enriched query failed")>>
                           ELSE <<>>),
                      lookups |-> Append(acc.lookups,
                          [query |-> enriched_query, answer |-> script[i],
                           results |-> out.results])]
         IN  IF out.raise \/ Len(next.all_results) >= count
             THEN next
             ELSE FetchLoopStopping(enriched_queries, i + 1, count, script, next)

\* the loop over enriched_queries, from variant i on; script[i] is the
\* provider's answer to the i-th request of the call
RECURSIVE FetchLoop(_, _, _, _, _)
FetchLoop(enriched_queries, i, count, script, acc) ==
    IF i > Len(enriched_queries) THEN acc
    ELSE LET enriched_query == enriched_queries[i]
             out == TryPerformSearch(enriched_query, count, script[i])
         IN  IF out.raise
             THEN FetchLoop(enriched_queries, i + 1, count, script,
                     [all_results |-> acc.all_results,
                      events |-> acc.events \o out.events \o
                          <<LogEvent("warn", "Enriched query failed")>>,
                      lookups |-> Append(acc.lookups,
                          [query |-> enriched_query, answer |-> script[i],
                           results |-> <<>>])])
             ELSE LET next ==
                          [all_results |-> acc.all_results \o out.results,
                           events |-> acc.events \o out.events,
                           lookups |-> Append(acc.lookups,
                               [query |-> enriched_query, answer |-> script[i],
                                results |-> out.results])]
                  IN  IF Len(next.all_results) >= count
                      THEN next
                      ELSE FetchLoop(enriched_queries, i + 1, count, script, next)

\* a deduplication loop that never looks at seen_urls
RECURSIVE DedupLoopBlind(_, _, _, _, _)
DedupLoopBlind(all_results, i, count, seen_urls, unique_results) ==
    IF i > Len(all_results) THEN unique_results
    ELSE IF Len(unique_results) + 1 >= count
         THEN Append(unique_results, all_results[i])
         ELSE DedupLoopBlind(all_results, i + 1, count, seen_urls,
                             Append(unique_results, all_results[i]))

\* the deduplication loop, from result i on
RECURSIVE DedupLoop(_, _, _, _, _)
DedupLoop(all_results, i, count, seen_urls, unique_results) ==
    IF i > Len(all_results) THEN unique_results
    ELSE IF all_results[i].url \notin seen_urls
         THEN IF Len(unique_results) + 1 >= count
              THEN Append(unique_results, all_results[i])
              ELSE DedupLoop(all_results, i + 1, count,
                             seen_urls \cup {all_results[i].url},
                             Append(unique_results, all_results[i]))
         ELSE DedupLoop(all_results, i + 1, count, seen_urls, unique_results)

\* if cached_results:
Truthy(r) == r.kind = "list" /\ r.value # <<>>

\* BraveSearchProvider.search once the API key is known to be set
search_with_key(enrichment, reranking, backend, table, t, query, count, script, readFault, writeFault) ==
    LET cached == SearchCache_get(table, backend, t, query, count, enrichment,
                                  reranking, readFault)
        start == <<LogEvent("info", "Starting search")>> \o cached.events
    IN
    IF Truthy(cached.ret)
    THEN [ret |-> cached.ret, db |-> cached.db,
          events |-> Append(start, LogEvent("info", "Search completed from cache")),
          lookups |-> <<>>]
    ELSE
    LET enriched_queries == enrich_query(enrichment, query)
        enrichedLog == IF Len(enriched_queries) > 1
                       THEN <<LogEvent("info", "Query enriched")>> ELSE <<>>
        fetched == FetchLoop(enriched_queries, 1, count, script,
                       [all_results |-> <<>>, events |-> <<>>, lookups |-> <<>>])
        unique_results == DedupLoop(fetched.all_results, 1, count, {}, <<>>)
        reranked == IF Len(unique_results) > 1
                    THEN rerank_results(reranking, query, unique_results)
                    ELSE [raise |-> FALSE, value |-> unique_results]
        rerankLog == IF Len(unique_results) > 1 /\ reranking
                     THEN <<LogEvent("info", "Results reranked")>> ELSE <<>>
        fetchedEvents == start \o enrichedLog \o fetched.events
    IN
    IF reranked.raise
    THEN [ret |-> RetRaise, db |-> cached.db, events |-> fetchedEvents,
          lookups |-> fetched.lookups]
    ELSE
    LET stored == SearchCache_set(cached.db, backend, t, query, count, enrichment,
                                  reranking, reranked.value, writeFault)
    IN  [ret |-> RetList(Take(reranked.value, count)), db |-> stored.db,
         events |-> fetchedEvents \o rerankLog \o stored.events
                    \o <<LogEvent("info", "Search completed")>>,
         lookups |-> fetched.lookups]

\* search without the check of the API key
search_unguarded(key, enrichment, reranking, backend, table, t, query, count, script, readFault, writeFault) ==
    search_with_key(enrichment, reranking, backend, table, t, query, count,
                    script, readFault, writeFault)

\* BraveSearchProvider.search: [ret, db, events, lookups]
search(key, enrichment, reranking, backend, table, t, query, count, script, readFault, writeFault) ==
    IF ~key
    THEN [ret |-> RetList(<<>>), db |-> table,
          events |-> <<LogEvent("error", "Missing API key")>>,
          lookups |-> <<>>]
    ELSE search_with_key(enrichment, reranking, backend, table, t, query, count,
                         script, readFault, writeFault)

---------------------------------------------------------------------------
(* The inputs the model draws from *)

qTeh == <<"T","e","h">>
qteh == <<"t","e","h">>
qPadded == <<" ","t","e","h">>
qthe == <<"t","h","e">>

\* queries given to search: both have the cache key of "teh"
Queries == {qTeh, qteh}

\* queries given to the cache directly
CacheQueries == {qTeh, qPadded, qthe}

Counts == 0..MaxCount

u1 == <<"u","1">>
u2 == <<"u","2">>
u3 == <<"u","3">>
ShortDescription == <<"x">>
LongDescription == [i \in 1..SHORT_DESCRIPTION |-> "z"]

\* items of the provider's web.results
itemThe == [title |-> qthe, url |-> u1, description |-> ShortDescription]
itemTeh == [title |-> qteh, url |-> u2, description |-> LongDescription]
itemDup == [title |-> qteh, url |-> u1, description |-> Missing]
itemNull == [title |-> NoneValue, url |-> u3, description |-> ShortDescription]

Outcomes ==
    { Timeout, HttpError(404), HttpError(429), HttpError(500), BadJson, NoWeb,
      Ok(<<itemThe, itemTeh, itemDup>>), Ok(<<itemDup>>), Ok(<<itemNull, itemThe>>) }

\* the most variants a query of the model has
MaxFetched == CHOOSE n \in 1..MAX_VARIANTS :
    /\ \E q \in Queries : Len(enrich_query(TRUE, q)) = n
    /\ \A q \in Queries : Len(enrich_query(TRUE, q)) <= n

\* what the provider answers to a request made after all the others: it is
\* down, or it serves
LastAnswers == {Timeout, Ok(<<itemThe, itemTeh, itemDup>>)}

\* the provider's answers to the requests of one call, and to one more
Scripts ==
    {s \in [1..(MaxFetched + 1) -> Outcomes] : s[MaxFetched + 1] \in LastAnswers}

\* the arguments given to the cache directly: those of search("Teh", 1) with
\* both features enabled, and those that differ from them in one argument
CacheArgs ==
    {a \in CacheQueries \X (1..MaxCount) \X BOOLEAN \X BOOLEAN :
        Cardinality({i \in 1..4 : a[i] # <<qTeh, 1, TRUE, TRUE>>[i]}) <= 1}

\* result lists given to SearchCache.set directly
ResultLists ==
    { <<>>,
      <<WebResult(qthe, u1, ShortDescription), WebResult(qteh, u2, LongDescription)>>,
      <<WebResult(NoneValue, u3, <<>>)>> }

\* words that queries given to enrich_query are made of
wTeh == <<"t","e","h">>
wTehCapital == <<"T","e","h">>
wRecieve == <<"r","e","c","i","e","v","e">>
wSeperate == <<"s","e","p","e","r","a","t","e">>
wFast == <<"f","a","s","t">>
wBig == <<"b","i","g">>
wCar == <<"c","a","r">>
wTest == <<"t","e","s","t">>

Words == {wTeh, wTehCapital, wRecieve, wSeperate, wFast, wBig, wCar, wTest}

\* " ".join(words)
RECURSIVE JoinWords(_)
JoinWords(words) ==
    IF words = <<>> THEN <<>>
    ELSE IF Len(words) = 1 THEN words[1]
    ELSE words[1] \o <<" ">> \o JoinWords(Tail(words))

\* queries given to enrich_query: up to MaxWords words
EnrichQueries ==
    {JoinWords(ws) : ws \in UNION {[1..n -> Words] : n \in 0..MaxWords}}

u4 == <<"u","4">>
u5 == <<"u","5">>
u6 == <<"u","6">>

GenericTitle ==
    <<"G","e","n","e","r","i","c"," ","T","i","t","l","e">>
GenericDescription ==
    <<"G","e","n","e","r","i","c"," ","d","e","s","c","r","i","p","t","i",
      "o","n">>
TestTitle ==
    <<"T","e","s","t"," ","T","i","t","l","e">>
TestDescription ==
    <<"T","e","s","t"," ","d","e","s","c","r","i","p","t","i","o","n"," ",
      "w","i","t","h"," ","t","e","s","t"," ","w","o","r","d">>

\* results given to rerank_results
rGeneric == WebResult(GenericTitle, u1, GenericDescription)
rTest == WebResult(TestTitle, u2, TestDescription)
rShortTest == WebResult(wTest, u3, ShortDescription)
rOther == WebResult(<<"O","t","h","e","r">>, u4, LongDescription)
rGenericShort == WebResult(GenericTitle, u5, ShortDescription)
rTesting == WebResult(<<"T","e","s","t","i","n","g">>, u6, LongDescription)

RerankPool == {rGeneric, rTest, rShortTest, rOther, rGenericShort, rTesting}

\* result lists given to rerank_results: up to MaxResults results
RerankLists == UNION {[1..n -> RerankPool] : n \in 0..MaxResults}

\* queries given to rerank_results
RerankQueries ==
    { wTest, TestTitle,
      <<"g","e","n","e","r","i","c"," ","t","e","s","t">> }

\* the concurrent callers of the cache
Callers == 1..NumCallers

NoGet == [op |-> "none"]

NoCall == [op |-> "none", query |-> <<>>, count |-> 0, e |-> FALSE, r |-> FALSE,
           results |-> <<>>]

---------------------------------------------------------------------------
(* The state machine *)

Init ==
    /\ api_key \in BOOLEAN
    /\ ENABLE_ENRICHMENT \in BOOLEAN
    /\ ENABLE_RERANK \in BOOLEAN
    /\ CACHE_BACKEND \in {"sqlite", "memory"}
    /\ db = <<>>
    /\ now = 0
    /\ calls = 0
    /\ call = NoCall
    /\ ret = RetNone
    /\ events = <<>>
    /\ lookups = <<>>
    /\ nextResp = Timeout
    /\ pending = [c \in Callers |-> NoGet]

\* provider.search(query, count)
Search ==
    /\ calls < MaxSearches
    /\ call = NoCall
    /\ \E query \in Queries, count \in Counts, script \in Scripts,
          readFault \in BOOLEAN, writeFault \in BOOLEAN :
        \E done \in {search(api_key, ENABLE_ENRICHMENT, ENABLE_RERANK, CACHE_BACKEND,
                             db, now, query, count, script, readFault, writeFault)} :
            /\ db' = done.db
            /\ ret' = done.ret
            /\ events' = done.events
            /\ lookups' = done.lookups
            /\ nextResp' = script[Len(done.lookups) + 1]
            /\ call' = [op |-> "search", query |-> query, count |-> count,
                        e |-> ENABLE_ENRICHMENT, r |-> ENABLE_RERANK,
                        results |-> <<>>]
    /\ calls' = calls + 1
    /\ UNCHANGED <<pending, api_key, ENABLE_ENRICHMENT, ENABLE_RERANK, CACHE_BACKEND, now>>

\* cache.get(query, count, e, r)
Get ==
    /\ calls < MaxCacheOps
    /\ \E a \in CacheArgs, fault \in BOOLEAN :
        LET query == a[1]
            count == a[2]
            e == a[3]
            r == a[4]
            done == SearchCache_get(db, CACHE_BACKEND, now, query, count, e, r, fault)
        IN  /\ db' = done.db
            /\ ret' = done.ret
            /\ events' = done.events
            /\ call' = [op |-> "get", query |-> query, count |-> count,
                        e |-> e, r |-> r, results |-> <<>>]
    /\ calls' = calls + 1
    /\ UNCHANGED <<pending, api_key, ENABLE_ENRICHMENT, ENABLE_RERANK, CACHE_BACKEND, now,
                   lookups, nextResp>>

\* cache.set(query, count, e, r, results)
Set ==
    /\ calls < MaxCacheOps
    /\ \E a \in CacheArgs, results \in ResultLists, fault \in BOOLEAN :
        LET query == a[1]
            count == a[2]
            e == a[3]
            r == a[4]
            done == SearchCache_set(db, CACHE_BACKEND, now, query, count, e, r,
                                    results, fault)
        IN  /\ db' = done.db
            /\ ret' = RetNone
            /\ events' = done.events
            /\ call' = [op |-> "set", query |-> query, count |-> count,
                        e |-> e, r |-> r, results |-> results]
    /\ calls' = calls + 1
    /\ UNCHANGED <<pending, api_key, ENABLE_ENRICHMENT, ENABLE_RERANK, CACHE_BACKEND, now,
                   lookups, nextResp>>

\* time passes between calls (a search reads the clock as one instant)
Tick ==
    /\ now < MaxTime
    /\ call.op # "search"
    /\ now' = now + 1
    /\ UNCHANGED <<pending, api_key, ENABLE_ENRICHMENT, ENABLE_RERANK, CACHE_BACKEND, db,
                   calls, call, ret, events, lookups, nextResp>>

\* the caller takes what search returned
Return ==
    /\ call.op = "search"
    /\ call' = NoCall
    /\ ret' = RetNone
    /\ events' = <<>>
    /\ lookups' = <<>>
    /\ nextResp' = Timeout
    /\ UNCHANGED <<pending, api_key, ENABLE_ENRICHMENT, ENABLE_RERANK, CACHE_BACKEND, db,
                   now, calls>>

Next == Search \/ Return \/ Tick

\* the pipeline: calls of search
Spec == Init /\ [][Next]_vars

InitCache == Init /\ api_key /\ ENABLE_ENRICHMENT /\ ENABLE_RERANK

NextCache == Get \/ Set \/ Tick

\* the cache alone: calls of get and set
SpecCache == InitCache /\ [][NextCache]_vars

\* enrich_query(query)
Enrich ==
    /\ call = NoCall
    /\ \E query \in EnrichQueries :
        /\ ret' = RetList(enrich_query(ENABLE_ENRICHMENT, query))
        /\ call' = [op |-> "enrich", query |-> query, count |-> 0,
                    e |-> ENABLE_ENRICHMENT, r |-> ENABLE_RERANK,
                    results |-> <<>>]
    /\ calls' = calls + 1
    /\ UNCHANGED <<pending, api_key, ENABLE_ENRICHMENT, ENABLE_RERANK, CACHE_BACKEND, db,
                   now, events, lookups, nextResp>>

InitEnrich == Init /\ api_key /\ ENABLE_RERANK /\ CACHE_BACKEND = "sqlite"

NextEnrich == Enrich

\* enrich_query alone
SpecEnrich == InitEnrich /\ [][NextEnrich]_vars

\* rerank_results(query, results)
Rerank ==
    /\ call = NoCall
    /\ \E query \in RerankQueries, results \in RerankLists :
        LET out == rerank_results(ENABLE_RERANK, query, results) IN
        /\ ret' = IF out.raise THEN RetRaise ELSE RetList(out.value)
        /\ events' = IF ENABLE_RERANK /\ Len(results) > 1 /\ ~out.raise
                      THEN <<LogEvent("info", "Results reranked")>>
                      ELSE <<>>
        /\ call' = [op |-> "rerank", query |-> query, count |-> 0,
                    e |-> ENABLE_ENRICHMENT, r |-> ENABLE_RERANK,
                    results |-> results]
    /\ calls' = calls + 1
    /\ UNCHANGED <<pending, api_key, ENABLE_ENRICHMENT, ENABLE_RERANK, CACHE_BACKEND, db,
                   now, lookups, nextResp>>

InitRerank == Init /\ api_key /\ ENABLE_ENRICHMENT /\ CACHE_BACKEND = "sqlite"

NextRerank == Rerank

\* rerank_results alone
SpecRerank == InitRerank /\ [][NextRerank]_vars

\* caller c starts cache.get(query, count, e, r): it runs up to the test of
\* the row's age, and returns unless the row is expired
GetSelect(c) ==
    /\ calls < MaxCacheOps
    /\ pending[c] = NoGet
    /\ \E a \in CacheArgs, fault \in BOOLEAN :
        LET done == SearchCache_get_select(db, CACHE_BACKEND, now, a[1], a[2],
                                           a[3], a[4], fault)
            started == [op |-> "get", query |-> a[1], count |-> a[2],
                        e |-> a[3], r |-> a[4], results |-> <<>>]
        IN  /\ ret' = done.ret
            /\ events' = done.events
            /\ call' = started
            /\ pending' = IF done.expired
                           THEN [pending EXCEPT ![c] = started]
                           ELSE pending
    /\ calls' = calls + 1
    /\ UNCHANGED <<api_key, ENABLE_ENRICHMENT, ENABLE_RERANK, CACHE_BACKEND, db,
                   now, lookups, nextResp>>

\* caller c, which found its row expired, runs the DELETE and returns
GetDelete(c) ==
    /\ pending[c] # NoGet
    /\ \E fault \in BOOLEAN :
        LET cache_key == _generate_cache_key(pending[c].query, pending[c].count,
                                             pending[c].e, pending[c].r)
            done == SearchCache_get_delete(db, cache_key, fault)
        IN
        /\ db' = done.db
        /\ ret' = done.ret
        /\ events' = done.events
    /\ call' = pending[c]
    /\ pending' = [pending EXCEPT ![c] = NoGet]
    /\ UNCHANGED <<api_key, ENABLE_ENRICHMENT, ENABLE_RERANK, CACHE_BACKEND, now,
                   calls, lookups, nextResp>>

InitConcurrent == InitCache /\ CACHE_BACKEND = "sqlite"

NextConcurrent ==
    \/ \E c \in Callers : GetSelect(c)
    \/ \E c \in Callers : GetDelete(c)
    \/ Set
    \/ Tick

\* the cache with concurrent callers: a set is one statement, a get that
\* finds its row expired is two
SpecConcurrent == InitConcurrent /\ [][NextConcurrent]_vars

---------------------------------------------------------------------------
(* What the claims speak of *)

IsSearch == call.op = "search"

\* the step is one call of search
SearchStep == call = NoCall /\ call'.op = "search"

\* the step is one call of cache.get / cache.set
GetStep == calls' = calls + 1 /\ call'.op = "get"
SetStep == calls' = calls + 1 /\ call'.op = "set"

\* the cache key of a call
KeyOf(c) == _generate_cache_key(c.query, c.count, c.e, c.r)

\* the events of one kind
EventsOf(evs, kind) == SelectSeq(evs, LAMBDA ev : ev[1] = kind)

Logged(evs, level, message) ==
    \E i \in 1..Len(evs) : evs[i] = LogEvent(level, message)

\* the number of requests the last search sent for the variant q
AttemptsFor(q) ==
    Len(SelectSeq(events, LAMBDA ev : ev[1] = "request" /\ ev[2] = q))

\* timeout, HTTP status >= 500, or HTTP 429
Transient(answer) == answer.kind = "timeout" \/ _should_retry(answer)

\* the provider's answer to the request after the i-th of the last search
NextAnswer(i) == IF i < Len(lookups) THEN lookups[i + 1].answer ELSE nextResp

\* the results of all the variants fetched, in fetch order
RECURSIVE Concat(_)
Concat(lists) ==
    IF lists = <<>> THEN <<>> ELSE Head(lists) \o Concat(Tail(lists))

Fetched == Concat([i \in 1..Len(lookups) |-> lookups[i].results])

\* the first result with the url u
FirstWithUrl(results, u) ==
    results[CHOOSE i \in 1..Len(results) :
                /\ results[i].url = u
                /\ \A j \in 1..(i - 1) : results[j].url # u]

\* the entry is in the table and younger than the TTL
Fresh(table, key, t) ==
    key \in DOMAIN table /\ t - table[key].created_at < ttl_seconds

Expired(table, key, t) ==
    key \in DOMAIN table /\ t - table[key].created_at >= ttl_seconds

---------------------------------------------------------------------------
(* The claims *)

\* C1: when every request to the provider times out, the lookup of each
\* variant makes RETRY_ATTEMPTS + 1 requests and then yields no results.
C1_RetryExhaustion ==
    ( /\ IsSearch
      /\ nextResp = Timeout
      /\ \A i \in 1..Len(lookups) : lookups[i].answer = Timeout )
    => \A i \in 1..Len(lookups) :
          /\ AttemptsFor(lookups[i].query) = RETRY_ATTEMPTS + 1
          /\ lookups[i].results = <<>>

\* C2: when a request fails with a transient error and the provider serves
\* the next request, the lookup returns the results of that answer.
C2_RetryRecovers ==
    IsSearch =>
        \A i \in 1..Len(lookups) :
            ( /\ Transient(lookups[i].answer)
              /\ ~_perform_search(lookups[i].query, call.count, NextAnswer(i)).raise )
            => lookups[i].results =
                   _perform_search(lookups[i].query, call.count, NextAnswer(i)).results

\* C3: a variant the provider answers with HTTP 404 is requested exactly
\* once and contributes no results.
C3_NotFoundNotRetried ==
    IsSearch =>
        \A i \in 1..Len(lookups) :
            lookups[i].answer = HttpError(404)
            => /\ AttemptsFor(lookups[i].query) = 1
               /\ lookups[i].results = <<>>

\* a search in which the first variant got a 404 and the second was fetched
C3_Witness ==
    /\ IsSearch
    /\ Len(lookups) = 2
    /\ lookups[1].answer = HttpError(404)
    /\ ret.kind = "list"

\* C4: a search that finds a fresh entry under its key (API key set, no
\* storage fault) returns the stored list, whatever it is, and does nothing
\* else: no request, no reranking, no change of the table.
C4_HitServedVerbatim ==
    [][ ( /\ SearchStep
          /\ api_key
          /\ CACHE_BACKEND = "sqlite"
          /\ Fresh(db, KeyOf(call'), now)
          /\ ~Logged(events', "error", "Cache retrieval failed") )
        => /\ ret' = RetList(json_loads_results(db[KeyOf(call')].results))
           /\ db' = db
           /\ EventsOf(events', "request") = <<>>
           /\ EventsOf(events', "upsert") = <<>>
           /\ ~Logged(events', "info", "Results reranked") ]_vars

\* C5: a get that follows a set with the same arguments, both without a
\* storage fault and with the entry younger than the TTL, returns a list of
\* the same length with the same url, title and description at each place.
C5_RoundTrip ==
    [][ ( /\ call.op = "set"
          /\ EventsOf(events, "upsert") # <<>>
          /\ GetStep
          /\ call'.query = call.query /\ call'.count = call.count
          /\ call'.e = call.e /\ call'.r = call.r
          /\ ~Logged(events', "error", "Cache retrieval failed")
          /\ Fresh(db, KeyOf(call), now) )
        => /\ ret'.kind = "list"
           /\ Len(ret'.value) = Len(call.results)
           /\ \A i \in 1..Len(call.results) :
                 /\ ret'.value[i].url = call.results[i].url
                 /\ ret'.value[i].title = call.results[i].title
                 /\ ret'.value[i].description = call.results[i].description ]_vars

\* a get right after a set returned the two results that were set
C5_Witness ==
    /\ call.op = "get"
    /\ calls = 2
    /\ ret.kind = "list"
    /\ Len(ret.value) = 2

\* C6: a get (without a storage fault) of an entry whose age is at least the
\* TTL returns absent and removes the row; a get of a key with no row returns
\* absent; a row appears only by a set of its key; and a get of an entry
\* younger than the TTL leaves the table as it is.
C6_ExpiredDeleted ==
    [][ /\ ( /\ GetStep
             /\ Expired(db, KeyOf(call'), now)
             /\ ~Logged(events', "error", "Cache retrieval failed") )
           => /\ ret' = RetNone
              /\ KeyOf(call') \notin DOMAIN db'
        /\ (GetStep /\ KeyOf(call') \notin DOMAIN db)
           => /\ ret' = RetNone
              /\ KeyOf(call') \notin DOMAIN db'
        /\ \A k \in DOMAIN db' \ DOMAIN db : SetStep /\ KeyOf(call') = k
        /\ (GetStep /\ Fresh(db, KeyOf(call'), now)) => db' = db ]_vars

\* a get found the entry expired, and the row is gone
C6_Witness ==
    /\ call.op = "get"
    /\ EventsOf(events, "delete") # <<>>
    /\ ret = RetNone
    /\ KeyOf(call) \notin DOMAIN db

\* C7: a list search returns has no two results with the same url; a url
\* that the results of two variants share has exactly one entry in it; and
\* each entry of a list computed from the provider is the first result with
\* its url in fetch order.
C7_NoDuplicateUrls ==
    (IsSearch /\ ret.kind = "list") =>
        /\ \A i, j \in 1..Len(ret.value) :
              ret.value[i].url = ret.value[j].url => i = j
        /\ \A a, b \in 1..Len(lookups) :
              a < b =>
                \A x \in 1..Len(lookups[a].results), y \in 1..Len(lookups[b].results) :
                    lookups[a].results[x].url = lookups[b].results[y].url
                    => \E k \in 1..Len(ret.value) :
                          ret.value[k].url = lookups[a].results[x].url
        /\ lookups # <<>> =>
              \A k \in 1..Len(ret.value) :
                  ret.value[k] = FirstWithUrl(Fetched, ret.value[k].url)

\* two variants returned different results with one url, and the list
\* returned holds the one of the first variant
C7_Witness ==
    /\ IsSearch
    /\ ret.kind = "list"
    /\ Len(lookups) = 2
    /\ \E x \in 1..Len(lookups[1].results), y \in 1..Len(lookups[2].results) :
          /\ lookups[1].results[x].url = lookups[2].results[y].url
          /\ lookups[1].results[x] # lookups[2].results[y]
          /\ \E k \in 1..Len(ret.value) : ret.value[k] = lookups[1].results[x]

\* C8: a list search returns, computed or served from the cache, has at most
\* count elements, and so has every list search writes to the cache.
C8_AtMostCount ==
    IsSearch =>
        /\ ret.kind = "list" => Len(ret.value) <= call.count
        /\ EventsOf(events, "upsert") # <<>> =>
              Len(db[KeyOf(call)].results) <= call.count

\* the provider sent more than count items, count of them were returned and
\* cached
C8_Witness ==
    /\ IsSearch
    /\ call.count >= 1
    /\ \E i \in 1..Len(lookups) : Len(lookups[i].answer.items) > call.count
    /\ ret.kind = "list"
    /\ Len(ret.value) = call.count
    /\ EventsOf(events, "upsert") # <<>>

\* C9: search returns a list whatever the provider answers and whatever
\* fault the cache has: it never raises.
C9_NeverRaises == IsSearch => ret.kind = "list"

\* C11: a get that follows a set which left its entry alone in the table
\* (both without a storage fault, the entry younger than the TTL) returns the
\* list that was set when the two queries are equal once lower-cased and
\* trimmed and the count and both flags are equal, and returns absent when
\* the queries differ otherwise or the count or a flag differs.
C11_SameEntry ==
    [][ ( /\ call.op = "set"
          /\ EventsOf(events, "upsert") # <<>>
          /\ DOMAIN db = {KeyOf(call)}
          /\ Fresh(db, KeyOf(call), now)
          /\ GetStep
          /\ ~Logged(events', "error", "Cache retrieval failed") )
        => IF /\ Strip(Lower(call'.query)) = Strip(Lower(call.query))
              /\ call'.count = call.count
              /\ call'.e = call.e
              /\ call'.r = call.r
           THEN ret' = RetList(call.results)
           ELSE ret' = RetNone ]_vars

\* the entry set for "Teh" was returned to a get for " teh"
C11_Witness ==
    /\ call.op = "get"
    /\ call.query = qPadded
    /\ KeyOf(call) \in DOMAIN db
    /\ db[KeyOf(call)].query = qTeh
    /\ ret.kind = "list"
    /\ ret.value # <<>>

\* the entry set for count 1 is absent to a get for count 2
C11_WitnessOtherCount ==
    /\ call.op = "get"
    /\ call.count = 2
    /\ DOMAIN db = {<<qteh, 1, TRUE, TRUE>>}
    /\ ret = RetNone

\* C10: without an API key search logs one error and returns the empty list;
\* it sends no request and neither reads nor writes the table.
C10_MissingKey ==
    [][ (SearchStep /\ ~api_key)
        => /\ ret' = RetList(<<>>)
           /\ events' = <<LogEvent("error", "Missing API key")>>
           /\ db' = db ]_vars

\* a search without an API key has returned
C10_Witness ==
    /\ IsSearch
    /\ ~api_key
    /\ ret = RetList(<<>>)

\* C12: the list enrich_query returns is not empty, its first element is the
\* query as given, and it has at most 3 elements; with enrichment disabled it
\* is the query alone.
C12_EnrichShape ==
    call.op = "enrich" =>
        /\ ret.value # <<>>
        /\ ret.value[1] = call.query
        /\ Len(ret.value) <= 3
        /\ ~ENABLE_ENRICHMENT => ret.value = <<call.query>>

\* a query with three typos, which has four variants before the slice
C12_Witness ==
    /\ call.op = "enrich"
    /\ ENABLE_ENRICHMENT
    /\ call.query = JoinWords(<<wTeh, wRecieve, wSeperate>>)
    /\ Len(ret.value) = 3

\* C13: no two elements of the list enrich_query returns are equal once
\* lower-cased.
C13_NoDuplicateVariants ==
    call.op = "enrich" =>
        \A i, j \in 1..Len(ret.value) :
            Lower(ret.value[i]) = Lower(ret.value[j]) => i = j

\* a query with an upper-case letter that got three variants
C13_Witness ==
    /\ call.op = "enrich"
    /\ call.query # Lower(call.query)
    /\ Len(ret.value) = 3

\* C14: with enrichment enabled, when the lower-cased query contains a key of
\* the typo table the second variant is the lower-cased query with the first
\* such key replaced by its correction; when it contains none but contains a
\* synonym trigger the second variant is the lower-cased query with the first
\* such trigger replaced by its first synonym.  "teh test" gives "the test"
\* and "fast car" gives "quick car".
C14_SecondVariant ==
    (call.op = "enrich" /\ ENABLE_ENRICHMENT) =>
        LET lowered == Lower(call.query)
            typoKeys == {i \in 1..Len(typos) : Contains(lowered, typos[i][1])}
            triggers == {i \in 1..Len(synonyms) : Contains(lowered, synonyms[i][1])}
            firstOf(S) == CHOOSE i \in S : \A k \in S : i <= k
        IN  /\ typoKeys # {} =>
                /\ Len(ret.value) >= 2
                /\ ret.value[2] = Replace(lowered, typos[firstOf(typoKeys)][1],
                                          typos[firstOf(typoKeys)][2])
            /\ (typoKeys = {} /\ triggers # {}) =>
                /\ Len(ret.value) >= 2
                /\ ret.value[2] = Replace(lowered, synonyms[firstOf(triggers)][1],
                                          synonyms[firstOf(triggers)][2][1])
            /\ call.query = JoinWords(<<wTeh, wTest>>) =>
                InList(<<"t","h","e"," ","t","e","s","t">>, ret.value)
            /\ call.query = JoinWords(<<wFast, wCar>>) =>
                InList(<<"q","u","i","c","k"," ","c","a","r">>, ret.value)

\* "fast car" got "quick car" as its second variant
C14_Witness ==
    /\ call.op = "enrich"
    /\ ENABLE_ENRICHMENT
    /\ call.query = JoinWords(<<wFast, wCar>>)
    /\ ret.value[2] = <<"q","u","i","c","k"," ","c","a","r">>

\* the score of a result as the scoring rule states it, in half points: 2.0
\* per query term among the title's terms, 1.0 per query term among the terms
\* of title + " " + description, 3.0 when the query is a substring of that
\* text, all lower-cased, less 0.5 when the description has fewer than 50
\* characters
StatedScore(query, result) ==
    LET Q == {Split(Lower(query))[i] : i \in 1..Len(Split(Lower(query)))}
        T == Split(Lower(result.title))
        text == Lower(result.title \o <<" ">> \o result.description)
        D == Split(text)
    IN  4 * Cardinality({t \in Q : InList(t, T)})
        + 2 * Cardinality({t \in Q : InList(t, D)})
        + (IF Contains(text, Lower(query)) THEN 6 ELSE 0)
        - (IF Len(result.description) < 50 THEN 1 ELSE 0)

\* a term of the query is among the terms of the result's title
TitleHasTerm(query, result) ==
    \E i \in 1..Len(Split(Lower(query))) :
        InList(Split(Lower(query))[i], Split(Lower(result.title)))

\* no term of the query is among the terms of the result's text, and the
\* query is not a substring of it
MatchesNothing(query, result) ==
    LET text == Lower(result.title \o <<" ">> \o result.description) IN
    /\ \A i \in 1..Len(Split(Lower(query))) :
          ~InList(Split(Lower(query))[i], Split(text))
    /\ ~Contains(text, Lower(query))

\* C15: with reranking enabled and two results or more, the list
\* rerank_results returns is in non-increasing order of the stated score; a
\* result whose title has a query term comes before every result that
\* matches nothing; for the query "test" the result "Test Title" comes before
\* "Generic Title".
C15_OrderedByScore ==
    (call.op = "rerank" /\ ENABLE_RERANK /\ Len(call.results) >= 2) =>
        /\ ret.kind = "list"
        /\ \A i, j \in 1..Len(ret.value) :
              i < j => StatedScore(call.query, ret.value[i])
                           >= StatedScore(call.query, ret.value[j])
        /\ \A i, j \in 1..Len(ret.value) :
              ( /\ TitleHasTerm(call.query, ret.value[i])
                /\ MatchesNothing(call.query, ret.value[j]) ) => i < j
        /\ (call.query = wTest /\ call.results = <<rGeneric, rTest>>)
              => ret.value = <<rTest, rGeneric>>

\* for "test", the list "Generic Title", "Test Title" came back reversed
C15_Witness ==
    /\ call.op = "rerank"
    /\ ENABLE_RERANK
    /\ call.query = wTest
    /\ call.results = <<rGeneric, rTest>>
    /\ ret = RetList(<<rTest, rGeneric>>)

\* C16: the results of one computed score are in the list rerank_results
\* returns in the order they have in the list it was given.
C16_StableTies ==
    (call.op = "rerank" /\ ret.kind = "list") =>
        \A k \in 1..Len(call.results) :
            LET tied(x) == calculate_score(call.query, x).score
                             = calculate_score(call.query, call.results[k]).score
            IN  SelectSeq(ret.value, tied) = SelectSeq(call.results, tied)

\* the list was reordered, and two different results of one score are in it
C16_Witness ==
    /\ call.op = "rerank"
    /\ ENABLE_RERANK
    /\ ret.kind = "list"
    /\ ret.value # call.results
    /\ \E i, j \in 1..Len(ret.value) :
          /\ i < j
          /\ ret.value[i] # ret.value[j]
          /\ calculate_score(call.query, ret.value[i]).score
                = calculate_score(call.query, ret.value[j]).score

\* C17: the list rerank_results returns has the results of the list it was
\* given, each as many times, and is that list itself when reranking is
\* disabled or the list has at most one result.
C17_Permutation ==
    call.op = "rerank" =>
        /\ ret.kind = "list"
        /\ Len(ret.value) = Len(call.results)
        /\ \A x \in RerankPool :
              Len(SelectSeq(ret.value, LAMBDA y : y = x))
                = Len(SelectSeq(call.results, LAMBDA y : y = x))
        /\ (~ENABLE_RERANK \/ Len(call.results) <= 1) => ret.value = call.results

\* with reranking disabled, a list the sort would reorder came back as given
C17_Witness ==
    /\ call.op = "rerank"
    /\ ~ENABLE_RERANK
    /\ call.query = wTest
    /\ call.results = <<rGeneric, rTest>>
    /\ ret = RetList(call.results)

\* the request got no results: it timed out, or the response had an error
\* status or a body that is not JSON
Failing(answer) ==
    answer.kind = "timeout" \/ answer.status >= 400 \/ ~answer.json

\* the number of raw results of the first n variants fetched
RECURSIVE RawCount(_)
RawCount(n) == IF n = 0 THEN 0 ELSE RawCount(n - 1) + Len(lookups[n].results)

\* C18: on a cache miss the variants are requested one at a time in the
\* order enrich_query gives them, the query itself first, and no variant is
\* requested once the raw results of the variants before it number count or
\* more.
C18_EarlyStop ==
    (IsSearch /\ lookups # <<>>) =>
        LET variants == enrich_query(call.e, call.query)
            requests == EventsOf(events, "request")
        IN  /\ Len(lookups) <= Len(variants)
            /\ Len(requests) = Len(lookups)
            /\ \A i \in 1..Len(lookups) :
                  /\ lookups[i].query = variants[i]
                  /\ requests[i][2] = variants[i]
            /\ variants[1] = call.query
            /\ \A i \in 2..Len(lookups) : RawCount(i - 1) < call.count

\* C19: a variant whose lookup fails contributes no results and the variant
\* after it is looked up; and every fetched result that is the first with its
\* url, with at most count different urls up to it, is in the list search
\* returns.
C19_FailedVariantSkipped ==
    (IsSearch /\ lookups # <<>>) =>
        LET variants == enrich_query(call.e, call.query) IN
        /\ \A i \in 1..Len(lookups) :
              Failing(lookups[i].answer) =>
                  /\ lookups[i].results = <<>>
                  /\ i < Len(variants) =>
                        /\ Len(lookups) > i
                        /\ lookups[i + 1].query = variants[i + 1]
        /\ ret.kind = "list" =>
              \A k \in 1..Len(Fetched) :
                  ( /\ \A j \in 1..(k - 1) : Fetched[j].url # Fetched[k].url
                    /\ Cardinality({Fetched[j].url : j \in 1..k}) <= call.count )
                  => InList(Fetched[k], ret.value)

\* the first variant failed, the second was fetched and its results are in
\* the list returned
C19_Witness ==
    /\ IsSearch
    /\ Len(lookups) = 2
    /\ Failing(lookups[1].answer)
    /\ lookups[2].results # <<>>
    /\ ret.kind = "list"
    /\ ret.value # <<>>
    /\ \A k \in 1..Len(ret.value) : InList(ret.value[k], lookups[2].results)

\* C20: a search writes an entry only when it found no fresh entry under
\* its key and the lookup of at least one variant succeeded.
C20_NoEntryOnFailure ==
    [][ (SearchStep /\ EventsOf(events', "upsert") # <<>>)
        => /\ ~Fresh(db, KeyOf(call'), now)
           /\ \E i \in 1..Len(lookups') : ~Failing(lookups'[i].answer) ]_vars

\* C18 for calls with count >= 1
C18_EarlyStopPositive == call.count >= 1 => C18_EarlyStop

\* C21: with concurrent gets and sets, no step removes an entry that is
\* younger than the TTL: the entry a set wrote stays in the table until it
\* expires or a set replaces it.
C21_FreshNeverDeleted ==
    [][ \A k \in DOMAIN db : Fresh(db, k, now) => k \in DOMAIN db' ]_vars

====
